---------------------------- MODULE Spec2Model ----------------------------
(***************************************************************************)
(* Model of the sensor / actuator control program of src/main.py and of    *)
(* its integrations (src/iot_integrations.py): the AlertGate change        *)
(* detector with cooldown, the rate limited ThingSpeakClient, the shared   *)
(* readings record with its lock, and the threads that use them.           *)
(*                                                                         *)
(* Optional values (Python None) are sequences: <<>> is None, <<v>> is v.  *)
(* Python dicts are functions whose DOMAIN is the set of keys present.     *)
(* Time is in whole seconds; every time.time() call reads the clock now.   *)
(***************************************************************************)
EXTENDS Integers, Sequences, FiniteSets, TLC

VARIABLES
    now,            \* the wall clock read by time.time()
    last_sent,      \* AlertGate.last_sent   (dict key -> time)
    last_state,     \* AlertGate.last_state  (dict key -> state)
    sent_at,        \* history: time of the last successful send per key
    sup,            \* history: keys with a changed-state call suppressed since that send
    run,            \* history: per key, the current run of calls with one state
    evt,            \* history: what the most recent maybe_send call did
    gcall,          \* the maybe_send call of each concurrent caller: where it is
                    \* (pc), its arguments, its local now (t), and as history
                    \* whether it called tg.send (sent) and whether it ran
                    \* while a call of the other caller with the same key and
                    \* state was past its check (overlap)
    last_push,      \* ThingSpeakClient._last_push
    accepted_at,    \* history: time of the last push that returned True
    pevt,           \* history: what the most recent push call did
    scen,           \* history: progress of the calls through the timeline ScenarioTimes
    alerts,         \* whether main.alerts is an AlertGate (Telegram configured)
    env,            \* what the sensors can yield: the outcomes of an ultrasonic
                    \* read, of a DHT11 read, and the levels of the PIR and
                    \* moisture inputs
    keys,           \* the keys of the cells scanned: whether each is held down
                    \* and, as history, how many dispatches its present press
                    \* has caused (kept only where env.keys says that the keys
                    \* are modelled; elsewhere a key read yields any level)
    readings,       \* main.readings, the shared record
    readings_lock,  \* the thread holding main.readings_lock, or Free
    lcd_lock,       \* the thread holding main.lcd_lock, or Free
    motor_pin,      \* output level of DC_MOTOR_PIN
    stop_event,     \* main.stop_event
    pc,             \* where each thread is
    s_active,       \* sensors_thread: active
    s_distance,     \* sensors_thread: distance
    s_was_dry,      \* sensors_thread: was_dry
    s_dry,          \* check_and_drive_motor: the value moisture_is_dry() returned
    s_dht,          \* sensors_thread: (humidity, temperature)
    last_dht_time,  \* sensors_thread: last_dht_time
    k_active,       \* keypad_scanner_thread: active
    k_cell,         \* keypad_scanner_thread: the cell being scanned (index in ScanKeys)
    keypad_last_state, \* main.keypad_last_state, per cell
    k_d,            \* handle_keypress("1"): d
    k_dht,          \* handle_keypress("2"): (h, t)
    c_torn,         \* history: the publisher's payload pairs a temperature and a
                    \* humidity of different measurements
    whole           \* history: (temp_c, humidity) as whole measurements leave them

gateVars   == <<last_sent, last_state, sent_at, sup, run, evt, gcall>>
pushVars   == <<last_push, accepted_at, pevt, scen>>
sharedVars == <<alerts, env, keys, readings, readings_lock, lcd_lock, motor_pin, stop_event, pc, whole>>
sensorVars == <<s_active, s_distance, s_was_dry, s_dry, s_dht, last_dht_time>>
keypadVars == <<k_active, k_cell, keypad_last_state, k_d, k_dht>>
threadVars == <<sharedVars, sensorVars, keypadVars, c_torn>>
vars       == <<now, gateVars, pushVars, threadVars>>

-----------------------------------------------------------------------------
(* Bounds of the model *)

StartTime   == 100   \* the clock at program start (time.time() is Unix time)
GateHorizon == 62    \* seconds of clock explored around the AlertGate
PushHorizon == 18    \* seconds of clock explored around ThingSpeakClient.push
SampleHorizon == 60  \* seconds of clock explored around the threads

(* Program constants *)

cooldown_sec     == 60
min_interval_sec == 15

Keys == {"water_low", "soil_dry"}

\* How far the clock moves between two calls of the gate: half a cooldown,
\* give or take a second, so that two steps end just before, at or just after
\* a cooldown.
GateSteps == {cooldown_sec \div 2 - 1, cooldown_sec \div 2, cooldown_sec \div 2 + 1}

\* How far the clock moves between two readings of it by the threads.
SampleSteps == {cooldown_sec}

\* How far the clock moves between two calls of push.
PushSteps == 1..PushHorizon

None    == <<>>
Some(v) == <<v>>

-----------------------------------------------------------------------------
(* Python dict helpers *)

Get(d, k, default) == IF k \in DOMAIN d THEN d[k] ELSE default

Put(d, k, v) == [x \in DOMAIN d \cup {k} |-> IF x = k THEN v ELSE d[x]]

EmptyDict == [x \in {} |-> 0]

-----------------------------------------------------------------------------
(* The clock.  Tick(steps, h) lets dt seconds pass, for a dt of steps, up to
   h seconds after StartTime. *)

Tick(steps, h) ==
    \E dt \in steps :
        /\ now + dt <= StartTime + h
        /\ now' = now + dt

-----------------------------------------------------------------------------
(* AlertGate (src/iot_integrations.py) *)

Changed_AbsentIsFalse(key, state) == Get(last_state, key, FALSE) # state

\* changed = (self.last_state.get(key) != state); an absent key reads None,
\* which differs from every boolean state.
Changed(key, state) ==
    \/ key \notin DOMAIN last_state
    \/ last_state[key] # state

Recently_NoCooldown(key, t) == FALSE

\* recently = (now - self.last_sent.get(key, 0)) < self.cooldown_sec
Recently(key, t) == (t - Get(last_sent, key, 0)) < cooldown_sec

RecordState_OnSuccessOnly(key, state, attempt, delivered) ==
    IF delivered THEN Put(last_state, key, state) ELSE last_state

\* self.last_state[key] = state, inside "if changed and not recently",
\* whatever tg.send returned.
RecordState(key, state, attempt, delivered) ==
    IF attempt THEN Put(last_state, key, state) ELSE last_state

RecordSent_Always(key, delivered) == Put(last_sent, key, now)

\* if self.tg.send(...): self.last_sent[key] = now
RecordSent(key, delivered) ==
    IF delivered THEN Put(last_sent, key, now) ELSE last_sent

Inc2(n) == IF n < 2 THEN n + 1 ELSE 2

\* The history kept beside a call: none of it is read by the gate.
GateHistory(key, state, changed, attempt, delivered) ==
    LET tooSoon == key \in DOMAIN sent_at /\ now - sent_at[key] < cooldown_sec
        same    == key \in DOMAIN run /\ run[key].state = state
        before  == IF same THEN run[key].attempts ELSE 0
    IN  /\ sent_at' = IF delivered THEN Put(sent_at, key, now) ELSE sent_at
        /\ sup' = IF delivered THEN sup \ {key}
                  ELSE IF changed /\ ~attempt THEN sup \cup {key} ELSE sup
        /\ run' = Put(run, key,
                      [state    |-> state,
                       attempts |-> IF attempt THEN Inc2(before) ELSE before])
        /\ evt' = [key |-> key, state |-> state, attempted |-> attempt,
                   delivered |-> delivered, tooSoon |-> tooSoon,
                   differed |-> changed, repeat |-> same,
                   first |-> key \notin DOMAIN last_state,
                   resumed |-> attempt /\ key \in DOMAIN sent_at /\ key \in sup]

\* AlertGate.maybe_send(key, state, msg); ok is what tg.send returns when
\* it is called.
MaybeSend(key, state, ok) ==
    LET changed   == Changed(key, state)
        recently  == Recently(key, now)
        attempt   == changed /\ ~recently
        delivered == attempt /\ ok
    IN  /\ last_sent'  = RecordSent(key, delivered)
        /\ last_state' = RecordState(key, state, attempt, delivered)
        /\ GateHistory(key, state, changed, attempt, delivered)
        /\ UNCHANGED gcall

\* Two threads that call maybe_send of one AlertGate.
Callers == {"a", "b"}

Other(c) == IF c = "a" THEN "b" ELSE "a"

IdleCall == [pc |-> "idle", key |-> "", state |-> FALSE, t |-> 0,
             sent |-> FALSE, overlap |-> FALSE]

\* maybe_send, up to its test: now = time.time(); changed = ...; recently = ...;
\* "if changed and not recently:"
G_Begin(c) ==
    /\ gcall[c].pc = "idle"
    /\ \E key \in Keys, state \in BOOLEAN :
          LET attempt == Changed(key, state) /\ ~Recently(key, now)
              o       == Other(c)
              both    == /\ attempt /\ gcall[o].pc = "send"
                         /\ gcall[o].key = key /\ gcall[o].state = state
          IN  gcall' = [gcall EXCEPT
                          ![c] = IF attempt
                                 THEN [pc |-> "send", key |-> key, state |-> state,
                                       t |-> now, sent |-> FALSE, overlap |-> both]
                                 ELSE IdleCall,
                          ![o].overlap = @ \/ both]
    /\ UNCHANGED <<last_sent, last_state, sent_at, sup, run, evt>>

\* maybe_send, from its test on: if self.tg.send(msg): self.last_sent[key] = now;
\* self.last_state[key] = state
G_Send(c) ==
    /\ gcall[c].pc = "send"
    /\ \E ok \in BOOLEAN :
          last_sent' = IF ok THEN Put(last_sent, gcall[c].key, gcall[c].t) ELSE last_sent
    /\ last_state' = Put(last_state, gcall[c].key, gcall[c].state)
    /\ gcall' = [gcall EXCEPT ![c].pc = "idle", ![c].t = 0, ![c].sent = TRUE]
    /\ UNCHANGED <<sent_at, sup, run, evt>>

NoEvt == [key |-> "", state |-> FALSE, attempted |-> FALSE, delivered |-> FALSE,
          tooSoon |-> FALSE, differed |-> FALSE, repeat |-> FALSE, first |-> FALSE,
          resumed |-> FALSE]

InitGateVars ==
    /\ last_sent = EmptyDict
    /\ last_state = EmptyDict
    /\ sent_at = EmptyDict
    /\ sup = {}
    /\ run = EmptyDict
    /\ evt = NoEvt
    /\ gcall = [c \in Callers |-> IdleCall]

-----------------------------------------------------------------------------
(* ThingSpeakClient (src/iot_integrations.py) *)

NetOutcomes == {"ok", "rejected", "error"}   \* 200 with a digit body; any other
                                             \* response; requests.RequestException

RateLimited_Never(t) == FALSE

\* if now - self._last_push < self.min_interval_sec: return False
RateLimited(t) == (t - last_push) < min_interval_sec

\* What push returns.
PushResult(net) == ~RateLimited(now) /\ net = "ok"

\* The timeline of the example: four calls, in seconds after the first.
ScenarioTimes == <<0, 5, 10, 16>>

PushHistory(net, ret) ==
    LET n == Len(scen.results) + 1
    IN  /\ accepted_at' = IF ret THEN Some(now) ELSE accepted_at
        /\ pevt' = [ret |-> ret,
                    tooSoon |-> accepted_at # None
                                /\ now - accepted_at[1] < min_interval_sec,
                    sent |-> ~RateLimited(now),
                    net |-> IF RateLimited(now) THEN "" ELSE net,
                    at |-> now]
        /\ scen' = IF ~scen.on \/ n > Len(ScenarioTimes) THEN scen
                   ELSE IF net = "ok" /\ (n = 1 \/ now = scen.t0 + ScenarioTimes[n])
                        THEN [on |-> TRUE,
                              t0 |-> IF n = 1 THEN now ELSE scen.t0,
                              results |-> Append(scen.results, ret)]
                        ELSE [on |-> FALSE, t0 |-> 0, results |-> <<>>]

\* ThingSpeakClient.push(**fields); net is what requests.get does when it is
\* called.  The request carries the fields that are not None; nothing of the
\* client's state depends on them.
Push(net) ==
    last_push' = IF ~RateLimited(now) /\ net # "error" THEN now ELSE last_push

InitPushVars ==
    /\ last_push = 0
    /\ accepted_at = None
    /\ pevt = [ret |-> FALSE, tooSoon |-> FALSE, sent |-> FALSE, net |-> "", at |-> 0]
    /\ scen = [on |-> TRUE, t0 |-> 0, results |-> <<>>]

-----------------------------------------------------------------------------
(* The shared record, the locks and the pins (src/main.py) *)

BEAKER_HEIGHT_CM      == 10
WATER_LOW_DISTANCE_CM == 7
TEMP_MIN_C            == -20
TEMP_MAX_C            == 80
DHT_PERIOD            == 5
\* thingspeak_thread: time.sleep(5)
PUBLISH_PERIOD        == 5

Threads == {"st", "kt", "ct", "main"}
Free    == "free"

\* What one ultrasonic measurement yields: a distance in cm, or None when the
\* read raises.
DistanceReads == {0, 5, 8, 12}
UltraOutcomes == {None} \cup {Some(d) : d \in DistanceReads}

\* What Adafruit_DHT.read_retry yields: (humidity, temperature).
DhtOutcomes ==
    { [h |-> None,     t |-> None],
      [h |-> Some(40), t |-> Some(20)],
      [h |-> Some(60), t |-> Some(30)],
      [h |-> Some(40), t |-> Some(90)],
      [h |-> Some(40), t |-> Some(-30)] }

NoDht == [h |-> None, t |-> None]

\* Every outcome above, and both levels of the digital inputs.
FullEnv == [ultra |-> UltraOutcomes, dht |-> DhtOutcomes, level |-> BOOLEAN,
            keys |-> FALSE]

\* For the two writers of the record: every kind of distance (a raise, an
\* invalid one, one below and one above the beaker height) and of climate
\* (none, valid, too hot, too cold).
StoreEnv ==
    [ultra |-> {None, Some(0), Some(8), Some(12)},
     dht   |-> {m \in DhtOutcomes : m.h = None \/ m.h = Some(40)},
     level |-> BOOLEAN, keys |-> FALSE]

\* For the alerts of the sampling loop: every distance and level, and a
\* climate read that fails or succeeds.
SamplingEnv ==
    [ultra |-> UltraOutcomes,
     dht   |-> {m \in DhtOutcomes : m.t = None \/ m.t = Some(20)},
     level |-> BOOLEAN, keys |-> FALSE]

\* A bench with steady sensors: one distance, one climate, presence and dry soil.
BenchEnv == [ultra |-> {Some(8)}, dht |-> {[h |-> Some(40), t |-> Some(20)]},
             level |-> {TRUE}, keys |-> FALSE]

\* The bench of the water example: distances of 8 and 9 cm, both beyond
\* WATER_LOW_DISTANCE_CM, a steady climate, any moisture and presence.
WaterEnv == [ultra |-> {Some(8), Some(9)}, dht |-> {[h |-> Some(40), t |-> Some(20)]},
             level |-> BOOLEAN, keys |-> FALSE]

\* The bench with keys that are pressed and released, and any presence.
KeypadEnv == [ultra |-> {Some(8)}, dht |-> {[h |-> Some(40), t |-> Some(20)]},
              level |-> BOOLEAN, keys |-> TRUE]

\* What read_ultrasonic_distance_cm returns when its wait for the end of the
\* echo runs into its timeout of 0.02 s: (0.02 * 34300) / 2.0 cm, or a little
\* more.  An echo from 343 cm or further ends no earlier, so every distance
\* from here on is one of a wait that timed out.
EchoTimeoutCm == 343

\* The bench of an echo that may fail: a read that raises, one of 0 cm, one of
\* 8 cm and one whose wait for the end of the echo times out.
EchoEnv == [ultra |-> {None, Some(0), Some(8), Some(EchoTimeoutCm)},
            dht |-> {[h |-> Some(40), t |-> Some(20)]},
            level |-> BOOLEAN, keys |-> FALSE]

\* The bench with a key that, once pressed, is never released.
StuckEnv == [ultra |-> {Some(8)}, dht |-> {[h |-> Some(40), t |-> Some(20)]},
             level |-> {TRUE}, keys |-> TRUE]

InitReadings ==
    [temp_c |-> None, humidity |-> None, distance_cm |-> None,
     water_height |-> None, soil_dry |-> None, pir_active |-> None,
     motor_on |-> 0]

Max(a, b) == IF a >= b THEN a ELSE b
Min(a, b) == IF a <= b THEN a ELSE b

calc_water_height_Unclamped(distance_cm) == BEAKER_HEIGHT_CM - distance_cm

\* h = BEAKER_HEIGHT_CM - distance_cm; return max(0.0, min(BEAKER_HEIGHT_CM, h))
calc_water_height(distance_cm) ==
    Max(0, Min(BEAKER_HEIGHT_CM, BEAKER_HEIGHT_CM - distance_cm))

ValidTemp_NoUpperLimit(t) == t # None /\ TEMP_MIN_C <= t[1]

\* temperature is not None and TEMP_MIN_C <= temperature <= TEMP_MAX_C
ValidTemp(t) == t # None /\ TEMP_MIN_C <= t[1] /\ t[1] <= TEMP_MAX_C

\* read_dht11_both(), m being what Adafruit_DHT.read_retry yields
read_dht11_both(m) == IF ValidTemp(m.t) THEN m ELSE NoDht

Bit(b) == IF b THEN 1 ELSE 0

At(t, l)   == pc[t] = l /\ pc["main"] # "m_done"   \* daemon threads end with main
Goto(t, l) == pc' = [pc EXCEPT ![t] = l]

\* "with readings_lock:" entered, and left (Release).
Acquire(t) == readings_lock = Free /\ readings_lock' = t
Release_KeptInHandler(t) ==
    /\ readings_lock = t
    /\ readings_lock' = IF pc[t] \in {"k1_set", "k2_set"} THEN t ELSE Free

Release_Kept(t) == readings_lock = t /\ readings_lock' = readings_lock

Release(t) == readings_lock = t /\ readings_lock' = Free

MotorLevel_Inverted(dry) == Bit(~dry)

\* check_and_drive_motor: motor_on() (HIGH, 1) when dry, else motor_off() (LOW, 0)
MotorLevel(dry) == Bit(dry)

SetMotor_OnOnly(r, level) == IF level = 1 THEN [r EXCEPT !.motor_on = 1] ELSE r

SetMotor_Count(r, level) == [r EXCEPT !.motor_on = r.motor_on + level]

\* readings["motor_on"] = 1 (motor_on) or 0 (motor_off)
SetMotor(r, level) == [r EXCEPT !.motor_on = level]

\* The pair a whole measurement (h, t) leaves, h kept when it is None.
WholeAfter(h, t) ==
    [temp_c |-> t, humidity |-> IF h # None THEN h ELSE whole.humidity]

-----------------------------------------------------------------------------
(* sensors_thread (src/main.py) *)

\* while not stop_event.is_set(): if not slide_switch_on(): ...
S_Loop ==
    /\ At("st", "s_loop")
    /\ IF stop_event THEN Goto("st", "s_exit")
       ELSE \E on \in BOOLEAN : Goto("st", IF on THEN "s_pir_lock" ELSE "s_off_pin")
    /\ UNCHANGED <<keypadVars, c_torn>>
    /\ UNCHANGED <<now, gateVars, pushVars, sensorVars>>
    /\ UNCHANGED <<alerts, env, keys, readings, readings_lock, lcd_lock, motor_pin, stop_event, whole>>

\* motor_off(), switch off: GPIO.output(DC_MOTOR_PIN, GPIO.LOW)
S_OffPin ==
    /\ At("st", "s_off_pin")
    /\ motor_pin' = 0
    /\ Goto("st", "s_off_lock")
    /\ UNCHANGED <<keypadVars, c_torn>>
    /\ UNCHANGED <<now, gateVars, pushVars, sensorVars>>
    /\ UNCHANGED <<alerts, env, keys, readings, readings_lock, lcd_lock, stop_event, whole>>

S_OffLock ==
    /\ At("st", "s_off_lock")
    /\ Acquire("st")
    /\ Goto("st", "s_off_set")
    /\ UNCHANGED <<keypadVars, c_torn>>
    /\ UNCHANGED <<now, gateVars, pushVars, sensorVars>>
    /\ UNCHANGED <<alerts, env, keys, readings, lcd_lock, motor_pin, stop_event, whole>>

\* readings["motor_on"] = 0; then time.sleep(SENSOR_POLL_INTERVAL); continue
S_OffSet ==
    /\ At("st", "s_off_set")
    /\ readings' = SetMotor(readings, 0)
    /\ Release("st")
    /\ Goto("st", "s_loop")
    /\ UNCHANGED <<keypadVars, c_torn>>
    /\ UNCHANGED <<now, gateVars, pushVars, sensorVars>>
    /\ UNCHANGED <<alerts, env, keys, lcd_lock, motor_pin, stop_event, whole>>

\* active = pir_active(): val = (GPIO.input(PIR_PIN) == PIR_ACTIVE_LEVEL), then
\* "with readings_lock:" is entered
S_PirLock ==
    /\ At("st", "s_pir_lock")
    /\ \E val \in env.level : s_active' = val
    /\ Acquire("st")
    /\ Goto("st", "s_pir_set")
    /\ UNCHANGED <<keypadVars, c_torn>>
    /\ UNCHANGED <<now, gateVars, pushVars, s_distance, s_was_dry, s_dry, s_dht, last_dht_time>>
    /\ UNCHANGED <<alerts, env, keys, readings, lcd_lock, motor_pin, stop_event, whole>>

S_PirSet ==
    /\ At("st", "s_pir_set")
    /\ readings' = [readings EXCEPT !.pir_active = Some(Bit(s_active))]
    /\ Release("st")
    /\ Goto("st", "s_ultra")
    /\ s_active' = FALSE
    /\ UNCHANGED <<keypadVars, c_torn>>
    /\ UNCHANGED <<now, gateVars, pushVars, s_distance, s_was_dry, s_dry, s_dht, last_dht_time>>
    /\ UNCHANGED <<alerts, env, keys, lcd_lock, motor_pin, stop_event, whole>>

\* read_ultrasonic_distance_cm() begins: the pulse on ULTRA_TRIG.  From here to
\* its return the thread drives the sensor and waits for the echo.
S_Trig ==
    /\ At("st", "s_ultra")
    /\ Goto("st", "s_echo")
    /\ UNCHANGED <<keypadVars, c_torn>>
    /\ UNCHANGED <<now, gateVars, pushVars, sensorVars>>
    /\ UNCHANGED <<alerts, env, keys, readings, readings_lock, lcd_lock, motor_pin, stop_event, whole>>

\* distance = read_ultrasonic_distance_cm() returns; except: distance = -1.
\* Whatever another thread does to the sensor meanwhile, the result is one of
\* the outcomes of env.
S_Ultra ==
    /\ At("st", "s_echo")
    /\ \E u \in env.ultra : s_distance' = IF u = None THEN -1 ELSE u[1]
    /\ Goto("st", "s_water")
    /\ UNCHANGED <<keypadVars, c_torn>>
    /\ UNCHANGED <<now, gateVars, pushVars, s_active, s_was_dry, s_dry, s_dht, last_dht_time>>
    /\ UNCHANGED <<alerts, env, keys, readings, readings_lock, lcd_lock, motor_pin, stop_event, whole>>

\* if distance > 0: ... else: print("[ULTRASONIC] Bad reading.")
GoodDistance(distance) == distance > 0

\* if distance > 0: alerts.maybe_send("water_low", distance > WATER_LOW_DISTANCE_CM, ...)
S_Water ==
    /\ At("st", "s_water")
    /\ IF alerts /\ GoodDistance(s_distance)
       THEN \E ok \in BOOLEAN :
               MaybeSend("water_low", s_distance > WATER_LOW_DISTANCE_CM, ok)
       ELSE UNCHANGED gateVars
    /\ Goto("st", "s_dry_lock")
    /\ UNCHANGED <<keypadVars, c_torn>>
    /\ UNCHANGED <<now, pushVars, sensorVars>>
    /\ UNCHANGED <<alerts, env, keys, readings, readings_lock, lcd_lock, motor_pin, stop_event, whole>>

\* was_dry = moisture_is_dry(): val = GPIO.input(MOISTURE_PIN) == ..., then
\* "with readings_lock:" is entered
S_DryLock ==
    /\ At("st", "s_dry_lock")
    /\ \E val \in env.level : s_was_dry' = val
    /\ Acquire("st")
    /\ Goto("st", "s_dry_set")
    /\ UNCHANGED <<keypadVars, c_torn>>
    /\ UNCHANGED <<now, gateVars, pushVars, s_active, s_distance, s_dry, s_dht, last_dht_time>>
    /\ UNCHANGED <<alerts, env, keys, readings, lcd_lock, motor_pin, stop_event, whole>>

S_DrySet ==
    /\ At("st", "s_dry_set")
    /\ readings' = [readings EXCEPT !.soil_dry = Some(Bit(s_was_dry))]
    /\ Release("st")
    /\ Goto("st", "s_cdm_lock")
    /\ UNCHANGED <<keypadVars, c_torn>>
    /\ UNCHANGED <<now, gateVars, pushVars, sensorVars>>
    /\ UNCHANGED <<alerts, env, keys, lcd_lock, motor_pin, stop_event, whole>>

\* check_and_drive_motor(): if moisture_is_dry(): -- a second read of the input
S_CdmLock ==
    /\ At("st", "s_cdm_lock")
    /\ \E val \in env.level : s_dry' = val
    /\ Acquire("st")
    /\ Goto("st", "s_cdm_set")
    /\ UNCHANGED <<keypadVars, c_torn>>
    /\ UNCHANGED <<now, gateVars, pushVars, s_active, s_distance, s_was_dry, s_dht, last_dht_time>>
    /\ UNCHANGED <<alerts, env, keys, readings, lcd_lock, motor_pin, stop_event, whole>>

S_CdmSet ==
    /\ At("st", "s_cdm_set")
    /\ readings' = [readings EXCEPT !.soil_dry = Some(Bit(s_dry))]
    /\ Release("st")
    /\ Goto("st", "s_mot_pin")
    /\ UNCHANGED <<keypadVars, c_torn>>
    /\ UNCHANGED <<now, gateVars, pushVars, sensorVars>>
    /\ UNCHANGED <<alerts, env, keys, lcd_lock, motor_pin, stop_event, whole>>

\* motor_on() / motor_off(): GPIO.output(DC_MOTOR_PIN, ...)
S_MotPin ==
    /\ At("st", "s_mot_pin")
    /\ motor_pin' = MotorLevel(s_dry)
    /\ Goto("st", "s_mot_lock")
    /\ UNCHANGED <<keypadVars, c_torn>>
    /\ UNCHANGED <<now, gateVars, pushVars, sensorVars>>
    /\ UNCHANGED <<alerts, env, keys, readings, readings_lock, lcd_lock, stop_event, whole>>

S_MotLock ==
    /\ At("st", "s_mot_lock")
    /\ Acquire("st")
    /\ Goto("st", "s_mot_set")
    /\ UNCHANGED <<keypadVars, c_torn>>
    /\ UNCHANGED <<now, gateVars, pushVars, sensorVars>>
    /\ UNCHANGED <<alerts, env, keys, readings, lcd_lock, motor_pin, stop_event, whole>>

S_MotSet ==
    /\ At("st", "s_mot_set")
    /\ readings' = SetMotor(readings, MotorLevel(s_dry))
    /\ Release("st")
    /\ Goto("st", "s_soil")
    /\ s_dry' = FALSE
    /\ UNCHANGED <<keypadVars, c_torn>>
    /\ UNCHANGED <<now, gateVars, pushVars, s_active, s_distance, s_was_dry, s_dht, last_dht_time>>
    /\ UNCHANGED <<alerts, env, keys, lcd_lock, motor_pin, stop_event, whole>>

\* if alerts: alerts.maybe_send("soil_dry", was_dry, ...)
S_Soil ==
    /\ At("st", "s_soil")
    /\ IF alerts
       THEN \E ok \in BOOLEAN : MaybeSend("soil_dry", s_was_dry, ok)
       ELSE UNCHANGED gateVars
    /\ Goto("st", "s_dht")
    /\ s_was_dry' = FALSE
    /\ UNCHANGED <<keypadVars, c_torn>>
    /\ UNCHANGED <<now, pushVars, s_active, s_distance, s_dry, s_dht, last_dht_time>>
    /\ UNCHANGED <<alerts, env, keys, readings, readings_lock, lcd_lock, motor_pin, stop_event, whole>>

\* now = time.time(); if now - last_dht_time >= DHT_PERIOD: read_retry, which
\* yields (None, None) too when it raises; then the range check.
S_Dht ==
    /\ At("st", "s_dht")
    /\ IF now - last_dht_time >= DHT_PERIOD
       THEN /\ last_dht_time' = now
            /\ \E m \in env.dht :
                  /\ s_dht' = m
                  /\ Goto("st", IF ValidTemp(m.t) THEN "s_temp_lock" ELSE "s_upd_lock")
       ELSE /\ UNCHANGED <<last_dht_time, s_dht>>
            /\ Goto("st", "s_upd_lock")
    /\ UNCHANGED <<keypadVars, c_torn>>
    /\ UNCHANGED <<now, gateVars, pushVars, s_active, s_distance, s_was_dry, s_dry>>
    /\ UNCHANGED <<alerts, env, keys, readings, readings_lock, lcd_lock, motor_pin, stop_event, whole>>

\* with readings_lock: readings["temp_c"] = float(temperature)
S_TempLock ==
    /\ At("st", "s_temp_lock")
    /\ Acquire("st")
    /\ Goto("st", "s_temp_set")
    /\ UNCHANGED <<keypadVars, c_torn>>
    /\ UNCHANGED <<now, gateVars, pushVars, sensorVars>>
    /\ UNCHANGED <<alerts, env, keys, readings, lcd_lock, motor_pin, stop_event, whole>>

S_TempSet ==
    /\ At("st", "s_temp_set")
    /\ readings' = [readings EXCEPT !.temp_c = s_dht.t]
    /\ whole' = WholeAfter(s_dht.h, s_dht.t)
    /\ Release("st")
    /\ Goto("st", IF s_dht.h # None THEN "s_hum_lock" ELSE "s_upd_lock")
    /\ UNCHANGED <<keypadVars, c_torn>>
    /\ UNCHANGED <<now, gateVars, pushVars, sensorVars>>
    /\ UNCHANGED <<alerts, env, keys, lcd_lock, motor_pin, stop_event>>

\* if humidity is not None: with readings_lock: readings["humidity"] = float(humidity)
S_HumLock ==
    /\ At("st", "s_hum_lock")
    /\ Acquire("st")
    /\ Goto("st", "s_hum_set")
    /\ UNCHANGED <<keypadVars, c_torn>>
    /\ UNCHANGED <<now, gateVars, pushVars, sensorVars>>
    /\ UNCHANGED <<alerts, env, keys, readings, lcd_lock, motor_pin, stop_event, whole>>

S_HumSet ==
    /\ At("st", "s_hum_set")
    /\ readings' = [readings EXCEPT !.humidity = s_dht.h]
    /\ Release("st")
    /\ Goto("st", "s_upd_lock")
    /\ UNCHANGED <<keypadVars, c_torn>>
    /\ UNCHANGED <<now, gateVars, pushVars, sensorVars>>
    /\ UNCHANGED <<alerts, env, keys, lcd_lock, motor_pin, stop_event, whole>>

\* with readings_lock: readings["distance_cm"] = ...; readings["water_height"] = ...
S_UpdLock ==
    /\ At("st", "s_upd_lock")
    /\ Acquire("st")
    /\ Goto("st", "s_upd_set")
    /\ UNCHANGED <<keypadVars, c_torn>>
    /\ UNCHANGED <<now, gateVars, pushVars, sensorVars>>
    /\ UNCHANGED <<alerts, env, keys, readings, lcd_lock, motor_pin, stop_event, whole>>

\* height = calc_water_height(distance if distance > 0 else BEAKER_HEIGHT_CM)
SampledHeight(distance) ==
    calc_water_height(IF distance > 0 THEN distance ELSE BEAKER_HEIGHT_CM)

\* float(distance) if distance > 0 else None
SampledDistance(distance) == IF distance > 0 THEN Some(distance) ELSE None

S_UpdSet ==
    /\ At("st", "s_upd_set")
    /\ readings' = [readings EXCEPT !.distance_cm = SampledDistance(s_distance),
                                    !.water_height = Some(SampledHeight(s_distance))]
    /\ Release("st")
    /\ Goto("st", "s_loop")
    /\ s_distance' = 0 /\ s_dht' = NoDht
    /\ UNCHANGED <<keypadVars, c_torn>>
    /\ UNCHANGED <<now, gateVars, pushVars, s_active, s_was_dry, s_dry, last_dht_time>>
    /\ UNCHANGED <<alerts, env, keys, lcd_lock, motor_pin, stop_event, whole>>

SensorsStep ==
    \/ S_Loop \/ S_OffPin \/ S_OffLock \/ S_OffSet
    \/ S_PirLock \/ S_PirSet \/ S_Trig \/ S_Ultra \/ S_Water
    \/ S_DryLock \/ S_DrySet \/ S_CdmLock \/ S_CdmSet
    \/ S_MotPin \/ S_MotLock \/ S_MotSet \/ S_Soil
    \/ S_Dht \/ S_TempLock \/ S_TempSet \/ S_HumLock \/ S_HumSet
    \/ S_UpdLock \/ S_UpdSet

-----------------------------------------------------------------------------
(* keypad_scanner_thread and handle_keypress (src/main.py) *)

\* The cells scanned, by the key each one maps to in KEYPAD_LAYOUT.
ScanKeys == <<"1", "2", "3">>

\* After a cell: the next cell, or time.sleep(KEYPAD_SCAN_INTERVAL) and the loop.
NextCell ==
    IF k_cell < Len(ScanKeys)
    THEN k_cell' = k_cell + 1 /\ Goto("kt", "k_scan") /\ UNCHANGED k_active
    ELSE k_cell' = 1 /\ Goto("kt", "k_loop") /\ k_active' = FALSE

\* Where handle_keypress(key) starts.
Dispatch(key) ==
    IF key = "1" THEN "k1_ultra" ELSE IF key = "2" THEN "k2_dht" ELSE "k_other"

EdgeTarget_Ungated(active, key) == Dispatch(key)

\* if active: handle_keypress(key); then the debounce wait
EdgeTarget(active, key) == IF active THEN Dispatch(key) ELSE "k_wait"

K_Loop ==
    /\ At("kt", "k_loop")
    /\ Goto("kt", IF stop_event THEN "k_exit" ELSE "k_pir_lock")
    /\ UNCHANGED <<now, gateVars, pushVars, sensorVars, keypadVars, c_torn>>
    /\ UNCHANGED <<alerts, env, keys, readings, readings_lock, lcd_lock, motor_pin, stop_event, whole>>

\* active = pir_active()
K_PirLock ==
    /\ At("kt", "k_pir_lock")
    /\ \E val \in env.level : k_active' = val
    /\ Acquire("kt")
    /\ Goto("kt", "k_pir_set")
    /\ UNCHANGED <<now, gateVars, pushVars, sensorVars, k_cell, keypad_last_state, k_d, k_dht, c_torn>>
    /\ UNCHANGED <<alerts, env, keys, readings, lcd_lock, motor_pin, stop_event, whole>>

K_PirSet ==
    /\ At("kt", "k_pir_set")
    /\ readings' = [readings EXCEPT !.pir_active = Some(Bit(k_active))]
    /\ Release("kt")
    /\ Goto("kt", "k_scan")
    /\ UNCHANGED <<now, gateVars, pushVars, sensorVars, keypadVars, c_torn>>
    /\ UNCHANGED <<alerts, env, keys, lcd_lock, motor_pin, stop_event, whole>>

\* What GPIO.input(r_pin) == GPIO.LOW yields for a cell.
KeyReads(c) == IF env.keys THEN {keys[c].down} ELSE BOOLEAN

RisingEdge_AnyEdge(pressed_now, pressed_before) == pressed_now # pressed_before

\* if pressed_now and not pressed_before:
RisingEdge(pressed_now, pressed_before) == pressed_now /\ ~pressed_before

\* The history of a dispatch for a cell.
Hit(c) == IF env.keys THEN [keys EXCEPT ![c].hits = Inc2(@)] ELSE keys

\* pressed_now = GPIO.input(r_pin) == GPIO.LOW; a rising edge is dispatched
\* when active; without a rising edge keypad_last_state is set at once.
K_Scan ==
    /\ At("kt", "k_scan")
    /\ \E pressed_now \in KeyReads(k_cell) :
          IF RisingEdge(pressed_now, keypad_last_state[k_cell])
          THEN /\ Goto("kt", EdgeTarget(k_active, ScanKeys[k_cell]))
               /\ keys' = IF k_active THEN Hit(k_cell) ELSE keys
               /\ UNCHANGED <<k_active, k_cell, keypad_last_state>>
          ELSE /\ keypad_last_state' = [keypad_last_state EXCEPT ![k_cell] = pressed_now]
               /\ NextCell
               /\ UNCHANGED keys
    /\ UNCHANGED <<now, gateVars, pushVars, sensorVars, k_d, k_dht, c_torn>>
    /\ UNCHANGED <<alerts, env, readings, readings_lock, lcd_lock, motor_pin, stop_event, whole>>

\* Other keys: console only
K_Other ==
    /\ At("kt", "k_other")
    /\ Goto("kt", "k_wait")
    /\ UNCHANGED <<now, gateVars, pushVars, sensorVars, keypadVars, c_torn>>
    /\ UNCHANGED <<alerts, env, keys, readings, readings_lock, lcd_lock, motor_pin, stop_event, whole>>

\* key "1": read_ultrasonic_distance_cm() begins with the pulse on ULTRA_TRIG
\* (K1_Trig) and returns d (K1_Ultra); d <= 0 or an exception go to lcd_print
\* and return.
K1_Trig ==
    /\ At("kt", "k1_ultra")
    /\ Goto("kt", "k1_echo")
    /\ UNCHANGED <<now, gateVars, pushVars, sensorVars, keypadVars, c_torn>>
    /\ UNCHANGED <<alerts, env, keys, readings, readings_lock, lcd_lock, motor_pin, stop_event, whole>>

K1_Ultra ==
    /\ At("kt", "k1_echo")
    /\ \E u \in env.ultra :
          IF u = None \/ u[1] <= 0
          THEN Goto("kt", "k_lcd_lock") /\ UNCHANGED k_d
          ELSE Goto("kt", "k1_lock") /\ k_d' = u[1]
    /\ UNCHANGED <<now, gateVars, pushVars, sensorVars, k_active, k_cell, keypad_last_state, k_dht, c_torn>>
    /\ UNCHANGED <<alerts, env, keys, readings, readings_lock, lcd_lock, motor_pin, stop_event, whole>>

K1_Lock ==
    /\ At("kt", "k1_lock")
    /\ Acquire("kt")
    /\ Goto("kt", "k1_set")
    /\ UNCHANGED <<now, gateVars, pushVars, sensorVars, keypadVars, c_torn>>
    /\ UNCHANGED <<alerts, env, keys, readings, lcd_lock, motor_pin, stop_event, whole>>

\* readings["distance_cm"] = float(d); readings["water_height"] = float(height)
K1_Set ==
    /\ At("kt", "k1_set")
    /\ readings' = [readings EXCEPT !.distance_cm = Some(k_d),
                                    !.water_height = Some(calc_water_height(k_d))]
    /\ Release("kt")
    /\ Goto("kt", "k_lcd_lock")
    /\ k_d' = 0
    /\ UNCHANGED <<now, gateVars, pushVars, sensorVars, k_active, k_cell, keypad_last_state, k_dht, c_torn>>
    /\ UNCHANGED <<alerts, env, keys, lcd_lock, motor_pin, stop_event, whole>>

\* key "2": h, t = read_dht11_both(), which is (None, None) unless the
\* temperature is valid; t None or an exception go to lcd_print and return.
K2_Dht ==
    /\ At("kt", "k2_dht")
    /\ \E m \in env.dht :
          IF read_dht11_both(m).t # None
          THEN Goto("kt", "k2_lock") /\ k_dht' = read_dht11_both(m)
          ELSE Goto("kt", "k_lcd_lock") /\ UNCHANGED k_dht
    /\ UNCHANGED <<now, gateVars, pushVars, sensorVars, k_active, k_cell, keypad_last_state, k_d, c_torn>>
    /\ UNCHANGED <<alerts, env, keys, readings, readings_lock, lcd_lock, motor_pin, stop_event, whole>>

K2_Lock ==
    /\ At("kt", "k2_lock")
    /\ Acquire("kt")
    /\ Goto("kt", "k2_set")
    /\ UNCHANGED <<now, gateVars, pushVars, sensorVars, keypadVars, c_torn>>
    /\ UNCHANGED <<alerts, env, keys, readings, lcd_lock, motor_pin, stop_event, whole>>

\* readings["temp_c"] = t; if h is not None: readings["humidity"] = float(h)
K2_Set ==
    /\ At("kt", "k2_set")
    /\ readings' = [readings EXCEPT !.temp_c = k_dht.t,
                                    !.humidity = IF k_dht.h # None THEN k_dht.h ELSE @]
    /\ whole' = WholeAfter(k_dht.h, k_dht.t)
    /\ Release("kt")
    /\ Goto("kt", "k_lcd_lock")
    /\ k_dht' = NoDht
    /\ UNCHANGED <<now, gateVars, pushVars, sensorVars, k_active, k_cell, keypad_last_state, k_d, c_torn>>
    /\ UNCHANGED <<alerts, env, keys, lcd_lock, motor_pin, stop_event>>

\* lcd_print(...): with lcd_lock: lcd.clear(); lcd.write_string(...)
K_LcdLock ==
    /\ At("kt", "k_lcd_lock")
    /\ lcd_lock = Free /\ lcd_lock' = "kt"
    /\ Goto("kt", "k_lcd_write")
    /\ UNCHANGED <<now, gateVars, pushVars, sensorVars, keypadVars, c_torn>>
    /\ UNCHANGED <<alerts, env, keys, readings, readings_lock, motor_pin, stop_event, whole>>

K_LcdWrite ==
    /\ At("kt", "k_lcd_write")
    /\ lcd_lock' = Free
    /\ Goto("kt", "k_wait")
    /\ UNCHANGED <<now, gateVars, pushVars, sensorVars, keypadVars, c_torn>>
    /\ UNCHANGED <<alerts, env, keys, readings, readings_lock, motor_pin, stop_event, whole>>

\* while GPIO.input(r_pin) == GPIO.LOW and not stop_event.is_set(): sleep;
\* the step is the wait ending.  Then keypad_last_state[r][c] = pressed_now,
\* the value sampled before the wait.
K_Wait ==
    /\ At("kt", "k_wait")
    /\ (\E pressed \in KeyReads(k_cell) : ~pressed) \/ stop_event
    /\ keypad_last_state' = [keypad_last_state EXCEPT ![k_cell] = TRUE]
    /\ NextCell
    /\ UNCHANGED <<now, gateVars, pushVars, sensorVars, k_d, k_dht, c_torn>>
    /\ UNCHANGED <<alerts, env, keys, readings, readings_lock, lcd_lock, motor_pin, stop_event, whole>>

\* A key goes down: a new press.
KeyPress ==
    /\ env.keys
    /\ \E c \in DOMAIN keys :
          /\ ~keys[c].down
          /\ keys' = [keys EXCEPT ![c] = [down |-> TRUE, hits |-> 0]]
    /\ UNCHANGED <<now, gateVars, pushVars, sensorVars, keypadVars, c_torn>>
    /\ UNCHANGED <<alerts, env, readings, readings_lock, lcd_lock, motor_pin, stop_event, pc, whole>>

\* A key of cells goes up.
KeyReleaseOf(cells) ==
    /\ env.keys
    /\ \E c \in cells :
          /\ keys[c].down
          /\ keys' = [keys EXCEPT ![c] = [down |-> FALSE, hits |-> 0]]
    /\ UNCHANGED <<now, gateVars, pushVars, sensorVars, keypadVars, c_torn>>
    /\ UNCHANGED <<alerts, env, readings, readings_lock, lcd_lock, motor_pin, stop_event, pc, whole>>

\* A key goes up.
KeyRelease == KeyReleaseOf(DOMAIN keys)

\* One finger: a key goes down while no other key is down.
KeyPressAlone == (\A c \in DOMAIN keys : ~keys[c].down) /\ KeyPress

\* The cell of the key that sticks, and the cells of the keys that do not.
StuckCell == 1
LooseCells == DOMAIN keys \ {StuckCell}

KeypadStep ==
    \/ K_Loop \/ K_PirLock \/ K_PirSet \/ K_Scan \/ K_Other
    \/ K1_Trig \/ K1_Ultra \/ K1_Lock \/ K1_Set
    \/ K2_Dht \/ K2_Lock \/ K2_Set
    \/ K_LcdLock \/ K_LcdWrite \/ K_Wait

-----------------------------------------------------------------------------
(* thingspeak_thread (src/main.py) *)

C_Loop ==
    /\ At("ct", "c_loop")
    /\ Goto("ct", IF stop_event THEN "c_exit" ELSE "c_lock")
    /\ UNCHANGED <<now, gateVars, pushVars, sensorVars, keypadVars, c_torn>>
    /\ UNCHANGED <<alerts, env, keys, readings, readings_lock, lcd_lock, motor_pin, stop_event, whole>>

C_Lock ==
    /\ At("ct", "c_lock")
    /\ Acquire("ct")
    /\ Goto("ct", "c_snap")
    /\ UNCHANGED <<now, gateVars, pushVars, sensorVars, keypadVars, c_torn>>
    /\ UNCHANGED <<alerts, env, keys, readings, lcd_lock, motor_pin, stop_event, whole>>

\* payload = dict(readings).  Of the payload the model keeps whether its
\* temperature and humidity are those of whole measurements.
C_Snap ==
    /\ At("ct", "c_snap")
    /\ c_torn' = (<<readings.temp_c, readings.humidity>> # <<whole.temp_c, whole.humidity>>)
    /\ Release("ct")
    /\ Goto("ct", "c_push")
    /\ UNCHANGED <<now, gateVars, pushVars, sensorVars, keypadVars>>
    /\ UNCHANGED <<alerts, env, keys, readings, lcd_lock, motor_pin, stop_event, whole>>

\* ok = ts_client.push(**payload); then time.sleep(5)
C_Push ==
    /\ At("ct", "c_push")
    /\ \E net \in NetOutcomes : Push(net)
    /\ c_torn' = FALSE
    /\ Goto("ct", "c_loop")
    /\ UNCHANGED <<now, gateVars, accepted_at, pevt, scen, sensorVars, keypadVars>>
    /\ UNCHANGED <<alerts, env, keys, readings, readings_lock, lcd_lock, motor_pin, stop_event, whole>>

PublisherStep == C_Loop \/ C_Lock \/ C_Snap \/ C_Push

-----------------------------------------------------------------------------
(* main: the shutdown of the finally block (src/main.py) *)

\* KeyboardInterrupt; stop_event.set(); time.sleep(0.2)
M_Stop ==
    /\ At("main", "m_run")
    /\ stop_event' = TRUE
    /\ Goto("main", "m_off_pin")
    /\ UNCHANGED <<now, gateVars, pushVars, sensorVars, keypadVars, c_torn>>
    /\ UNCHANGED <<alerts, env, keys, readings, readings_lock, lcd_lock, motor_pin, whole>>

\* everything_off(): motor_off()
M_OffPin ==
    /\ At("main", "m_off_pin")
    /\ motor_pin' = 0
    /\ Goto("main", "m_off_lock")
    /\ UNCHANGED <<now, gateVars, pushVars, sensorVars, keypadVars, c_torn>>
    /\ UNCHANGED <<alerts, env, keys, readings, readings_lock, lcd_lock, stop_event, whole>>

M_OffLock ==
    /\ At("main", "m_off_lock")
    /\ Acquire("main")
    /\ Goto("main", "m_off_set")
    /\ UNCHANGED <<now, gateVars, pushVars, sensorVars, keypadVars, c_torn>>
    /\ UNCHANGED <<alerts, env, keys, readings, lcd_lock, motor_pin, stop_event, whole>>

M_OffSet ==
    /\ At("main", "m_off_set")
    /\ readings' = SetMotor(readings, 0)
    /\ Release("main")
    /\ Goto("main", "m_lcd_lock")
    /\ UNCHANGED <<now, gateVars, pushVars, sensorVars, keypadVars, c_torn>>
    /\ UNCHANGED <<alerts, env, keys, lcd_lock, motor_pin, stop_event, whole>>

\* with lcd_lock: lcd.clear()
M_LcdLock ==
    /\ At("main", "m_lcd_lock")
    /\ lcd_lock = Free /\ lcd_lock' = "main"
    /\ Goto("main", "m_lcd_clear")
    /\ UNCHANGED <<now, gateVars, pushVars, sensorVars, keypadVars, c_torn>>
    /\ UNCHANGED <<alerts, env, keys, readings, readings_lock, motor_pin, stop_event, whole>>

M_LcdClear ==
    /\ At("main", "m_lcd_clear")
    /\ lcd_lock' = Free
    /\ Goto("main", "m_cleanup")
    /\ UNCHANGED <<now, gateVars, pushVars, sensorVars, keypadVars, c_torn>>
    /\ UNCHANGED <<alerts, env, keys, readings, readings_lock, motor_pin, stop_event, whole>>

\* GPIO.cleanup(); the process exits and its daemon threads with it.
M_Cleanup ==
    /\ At("main", "m_cleanup")
    /\ Goto("main", "m_done")
    /\ UNCHANGED <<now, gateVars, pushVars, sensorVars, keypadVars, c_torn>>
    /\ UNCHANGED <<alerts, env, keys, readings, readings_lock, lcd_lock, motor_pin, stop_event, whole>>

MainStep ==
    \/ M_Stop \/ M_OffPin \/ M_OffLock \/ M_OffSet
    \/ M_LcdLock \/ M_LcdClear \/ M_Cleanup

-----------------------------------------------------------------------------
(* Specifications *)

InitThreads ==
    /\ readings = InitReadings
    /\ readings_lock = Free
    /\ lcd_lock = Free
    /\ motor_pin = 0
    /\ stop_event = FALSE
    /\ keys = [c \in 1..Len(ScanKeys) |-> [down |-> FALSE, hits |-> 0]]
    /\ pc = [t \in Threads |->
               CASE t = "st" -> "s_loop" [] t = "kt" -> "k_loop"
                 [] t = "ct" -> "c_loop" [] OTHER -> "m_run"]
    /\ s_active = FALSE /\ s_distance = 0 /\ s_was_dry = FALSE /\ s_dry = FALSE /\ s_dht = NoDht
    /\ last_dht_time = 0
    /\ k_active = FALSE /\ k_cell = 1 /\ k_d = 0 /\ k_dht = NoDht
    /\ keypad_last_state = [c \in 1..Len(ScanKeys) |-> FALSE]
    /\ c_torn = FALSE
    /\ whole = [temp_c |-> None, humidity |-> None]

\* The state after main's setup, with or without Telegram credentials
\* (alerts is an AlertGate or None) and with the sensors of e.
InitWith(a, e) ==
    /\ now = StartTime
    /\ alerts = a
    /\ env = e
    /\ InitGateVars
    /\ InitPushVars
    /\ InitThreads

Init       == InitWith(FALSE, StoreEnv)
InitFull   == InitWith(FALSE, FullEnv)
InitAlerts == InitWith(TRUE, SamplingEnv)
InitBench  == InitWith(FALSE, BenchEnv)
InitHalt   == InitWith(TRUE, BenchEnv)
InitWater  == InitWith(TRUE, WaterEnv)
InitKeys   == InitWith(FALSE, KeypadEnv)
InitStuck  == InitWith(FALSE, StuckEnv)
InitEcho   == InitWith(TRUE, EchoEnv)

\* The sampling loop running on its own, with its alerts.
SampleTick == Tick(SampleSteps, SampleHorizon) /\ UNCHANGED <<gateVars, pushVars, threadVars>>

NextSampling == SensorsStep \/ SampleTick

SpecSampling == InitAlerts /\ [][NextSampling]_vars

\* The same on the bench of the water example.
SpecWater == InitWater /\ [][NextSampling]_vars

\* The same with an echo that may fail.
SpecEcho == InitEcho /\ [][NextSampling]_vars

\* The threads of the program over the shared record.
StoreTick == Tick(SampleSteps, SampleHorizon) /\ UNCHANGED <<gateVars, pushVars, threadVars>>

\* The two writers of the measurements: the sampling loop and the keypad.
Next == SensorsStep \/ KeypadStep \/ StoreTick

Spec == Init /\ [][Next]_vars

\* The sampling loop and the telemetry publisher.
NextPublish == SensorsStep \/ PublisherStep \/ StoreTick

SpecPublish == InitFull /\ [][NextPublish]_vars

\* The sampling loop and main's shutdown.
NextShutdown == SensorsStep \/ MainStep \/ StoreTick

SpecShutdown == InitFull /\ [][NextShutdown]_vars

\* The same two on the bench, with the alerts configured: every enabled
\* iteration goes through maybe_send before it drives the motor.
SpecHalt == InitHalt /\ [][NextShutdown]_vars

\* Every thread, on the bench.
NextLocks == SensorsStep \/ KeypadStep \/ PublisherStep \/ MainStep

SpecLocks == InitBench /\ [][NextLocks]_vars

\* The keypad scanner, the keys under it and the shutdown.
NextKeys == KeypadStep \/ KeyPress \/ KeyRelease \/ MainStep

SpecKeys == InitKeys /\ [][NextKeys]_vars

\* The sampling loop, the publisher and the scanner, with one finger on the
\* keypad and a key that is never released once it is pressed.
NextStuck ==
    \/ SensorsStep \/ PublisherStep \/ KeypadStep
    \/ KeyPressAlone \/ KeyReleaseOf(LooseCells)

\* Fair scheduling: a thread that can run again and again does run.  A thread
\* waits only for readings_lock or lcd_lock, which the others hold for a few
\* statements between sleeps (0.25 s, 5 s), so strong fairness is what the
\* scheduler gives the sampling loop and the publisher.  Nothing is assumed
\* of the scanner.
FairThreads == SF_vars(SensorsStep) /\ SF_vars(PublisherStep)

SpecStuck == InitStuck /\ [][NextStuck]_vars /\ FairThreads

\* Any caller of the gate: any key, state and send outcome, at any time.
GateCall ==
    /\ \E key \in Keys, state \in BOOLEAN, ok \in BOOLEAN : MaybeSend(key, state, ok)
    /\ UNCHANGED <<now, pushVars, threadVars>>

GateTick == Tick(GateSteps, GateHorizon) /\ UNCHANGED <<gateVars, pushVars, threadVars>>

NextGate == GateCall \/ GateTick

SpecGate == Init /\ [][NextGate]_vars

\* Two callers of one gate, their calls interleaved statement by statement.
GateBegin == (\E c \in Callers : G_Begin(c)) /\ UNCHANGED <<now, pushVars, threadVars>>

GateSend == (\E c \in Callers : G_Send(c)) /\ UNCHANGED <<now, pushVars, threadVars>>

NextCallers == GateBegin \/ GateSend \/ GateTick

SpecCallers == Init /\ [][NextCallers]_vars

\* Any caller of push: any network outcome, at any time.
PushCall ==
    /\ \E net \in NetOutcomes : Push(net) /\ PushHistory(net, PushResult(net))
    /\ UNCHANGED <<now, gateVars, threadVars>>

PushTick == Tick(PushSteps, PushHorizon) /\ UNCHANGED <<gateVars, pushVars, threadVars>>

NextPush == PushCall \/ PushTick

SpecPush == Init /\ [][NextPush]_vars

-----------------------------------------------------------------------------
(* Claims about AlertGate, under SpecGate *)

\* C1: for every key, no send is attempted less than cooldown_sec after the
\* last successful send for that key, whatever the states passed in between;
\* and a call whose state differs from last_state[key], made when no
\* successful send for the key is less than cooldown_sec old, does send.
C1_CooldownThenSend ==
    /\ evt.attempted => ~evt.tooSoon
    /\ (evt.key # "" /\ evt.differed /\ ~evt.tooSoon) => evt.attempted

\* A send made after an earlier successful send for the key, with a call of a
\* changed state suppressed by the cooldown in between.
C1_Witness == evt.resumed /\ evt.key \in DOMAIN sent_at

\* C2: in a run of successive calls for one key with one state, at most one
\* send is attempted, whether that send succeeded or failed and whether the
\* earlier calls of the run were suppressed by the cooldown.
C2_NoResendSameState == \A k \in DOMAIN run : run[k].attempts <= 1

\* A call repeating the state of the previous call for the key, whose send
\* had failed: nothing is sent again.
C2_Witness ==
    /\ evt.repeat /\ ~evt.attempted
    /\ run[evt.key].attempts = 1
    /\ evt.key \notin DOMAIN sent_at

-----------------------------------------------------------------------------
(* Claims about the soil scenario of sensors_thread, under SpecSampling *)

\* The sampling iteration has just signalled the soil state, and both of its
\* moisture reads (was_dry and the one of check_and_drive_motor) agreed.
SoilSignalled ==
    /\ pc["st"] = "s_dht"
    /\ evt.key = "soil_dry"
    /\ readings.soil_dry = Some(Bit(evt.state))

\* The actuator follows the moisture read: on when dry, off when moist.
MotorFollows == motor_pin = Bit(evt.state) /\ readings.motor_on = Bit(evt.state)

\* C3 as stated: when moisture reads dry the iteration turns the actuator on
\* and the soil_dry alert fires once; when moisture flips (to moist) the
\* actuator turns off and a new soil_dry alert fires in that same iteration,
\* however little time has passed since the previous alert.
C3_FlipAlertsAtOnce ==
    SoilSignalled => /\ MotorFollows
                     /\ evt.attempted <=> evt.differed

\* C3: when moisture reads dry the iteration turns the actuator on and the
\* soil_dry alert fires once; when moisture flips to moist the actuator turns
\* off, and a new soil_dry alert fires in that iteration exactly when no
\* soil_dry alert was delivered less than cooldown_sec before; a flip inside
\* the cooldown sends nothing.
C3_FlipAlertsAfterCooldown ==
    SoilSignalled => /\ MotorFollows
                     /\ evt.attempted <=> (evt.differed /\ ~evt.tooSoon)

\* The moist alert goes out in an iteration at least cooldown_sec after the
\* delivered dry alert, the flip to moist having been suppressed before; the
\* actuator is off.
C3_Witness ==
    /\ SoilSignalled /\ ~evt.state /\ evt.resumed
    /\ motor_pin = 0 /\ readings.motor_on = 0

-----------------------------------------------------------------------------
(* Claims about ThingSpeakClient.push, under SpecPush *)

\* C4: push never returns True less than min_interval_sec after the previous
\* push that returned True; and with a healthy network, calls 0, 5, 10 and
\* 16 seconds after the first return True, False, False, True.
C4_MinInterval ==
    /\ pevt.ret => ~pevt.tooSoon
    /\ (scen.on /\ Len(scen.results) = Len(ScenarioTimes))
          => scen.results = <<TRUE, FALSE, FALSE, TRUE>>

\* The four calls of the timeline have been made.
C4_Witness == scen.on /\ Len(scen.results) = Len(ScenarioTimes) /\ pevt.ret

-----------------------------------------------------------------------------
(* Claims about the measurements in the shared record, under Spec *)

\* C5: when a distance measurement fails or returns d <= 0, no update occurs:
\* the stored distance and water height keep their previous values, both
\* after the sampling iteration and after a key "1" read.
C5_FailedDistanceKeeps ==
    [][ /\ (pc["st"] = "s_upd_set" /\ pc'["st"] = "s_loop" /\ s_distance <= 0)
            => /\ readings'.distance_cm = readings.distance_cm
               /\ readings'.water_height = readings.water_height
        /\ (pc["kt"] = "k1_echo" /\ pc'["kt"] = "k_lcd_lock")
            => /\ readings'.distance_cm = readings.distance_cm
               /\ readings'.water_height = readings.water_height ]_vars

\* max(0, BEAKER_HEIGHT_CM - d) for a distance d > 0, as the claim words it
ClampedHeight(d) == IF d <= BEAKER_HEIGHT_CM THEN BEAKER_HEIGHT_CM - d ELSE 0

\* C6: for every valid distance d > 0 the stored water height is
\* max(0, BEAKER_HEIGHT_CM - d), and a stored water height always lies in
\* [0, BEAKER_HEIGHT_CM]; a distance beyond the beaker height gives 0.
C6_WaterHeightClamped ==
    /\ readings.distance_cm # None
          => /\ readings.distance_cm[1] > 0
             /\ readings.water_height = Some(ClampedHeight(readings.distance_cm[1]))
    /\ readings.water_height # None
          => /\ readings.water_height[1] >= 0
             /\ readings.water_height[1] <= BEAKER_HEIGHT_CM

\* A distance beyond the beaker height is stored with the height 0.
C6_Witness ==
    /\ readings.distance_cm # None /\ readings.distance_cm[1] > BEAKER_HEIGHT_CM
    /\ readings.water_height = Some(0)

\* A reading whose temperature is present and within [TEMP_MIN_C, TEMP_MAX_C]
InRange(m) == m.t # None /\ m.t[1] >= TEMP_MIN_C /\ m.t[1] <= TEMP_MAX_C

\* C7: a temperature reading that is missing or outside
\* [TEMP_MIN_C, TEMP_MAX_C] never changes the stored temperature or humidity:
\* no step of the sampling loop made while its reading is invalid, and no
\* step of the key "2" handler made while what read_dht11_both returned is
\* invalid, changes either field.
C7_InvalidTempKeeps ==
    [][ /\ (pc'["st"] # pc["st"] /\ ~InRange(s_dht))
            => /\ readings'.temp_c = readings.temp_c
               /\ readings'.humidity = readings.humidity
        /\ (pc'["kt"] # pc["kt"] /\ ~InRange(k_dht))
            => /\ readings'.temp_c = readings.temp_c
               /\ readings'.humidity = readings.humidity ]_vars

\* The sampling loop has read a temperature above TEMP_MAX_C and is past the
\* range check, while a temperature and a humidity are stored.
C7_Witness ==
    /\ pc["st"] = "s_upd_lock"
    /\ s_dht.t # None /\ s_dht.t[1] > TEMP_MAX_C
    /\ readings.temp_c # None /\ readings.humidity # None

-----------------------------------------------------------------------------
(* Claims about the actuator commands, under SpecShutdown *)

\* The store after a completed actuator command of the given level, which
\* had found the store r: motor_on is the level, and a store that already
\* had the level is left as it was.
Mirrors(r, level) ==
    /\ readings' = [r EXCEPT !.motor_on = level]
    /\ r.motor_on = level => readings' = r

\* C8: the actuator command is idempotent and mirrored into the store: the
\* output pin gets the commanded level, after motor_on() the store has
\* motor_on = 1 and after motor_off() motor_on = 0, and a command repeated on
\* a pin and a store that already have its level leaves both as they were.
C8_MotorIdempotentMirrored ==
    [][ /\ (pc["st"] = "s_mot_pin" /\ pc'["st"] = "s_mot_lock")
            => motor_pin' = Bit(s_dry)
        /\ (pc["st"] = "s_mot_set" /\ pc'["st"] = "s_soil")
            => Mirrors(readings, Bit(s_dry))
        /\ (pc["st"] = "s_off_pin" /\ pc'["st"] = "s_off_lock") => motor_pin' = 0
        /\ (pc["st"] = "s_off_set" /\ pc'["st"] = "s_loop") => Mirrors(readings, 0)
        /\ (pc["main"] = "m_off_pin" /\ pc'["main"] = "m_off_lock") => motor_pin' = 0
        /\ (pc["main"] = "m_off_set" /\ pc'["main"] = "m_lcd_lock")
            => Mirrors(readings, 0) ]_vars

\* motor_on() is running again on a pin and a store that a motor_on() before
\* it left on: the pin is written, the store is about to be.
C8_Witness ==
    /\ pc["st"] = "s_mot_set" /\ s_dry
    /\ motor_pin = 1 /\ readings.motor_on = 1

-----------------------------------------------------------------------------
(* Claims about the locks, under SpecLocks *)

\* Where a thread is between entering and leaving "with readings_lock:";
\* each is an assignment to, or a copy of, the readings record.
StoreSections ==
    {"s_off_set", "s_pir_set", "s_dry_set", "s_cdm_set", "s_mot_set",
     "s_temp_set", "s_hum_set", "s_upd_set",
     "k_pir_set", "k1_set", "k2_set", "c_snap", "m_off_set"}

\* Where a thread is between entering and leaving "with lcd_lock:".
DisplaySections == {"k_lcd_write", "m_lcd_clear"}

\* C9: a thread holding readings_lock is only reading or writing the
\* readings record (it is at no sensor read, wait, network call, display
\* write or sleep), a thread holding lcd_lock is only writing the display, no
\* thread holds both locks, and while the process runs some thread can
\* always take a step: the threads do not deadlock on the locks.
C9_LockDiscipline ==
    /\ \A t \in Threads :
          /\ readings_lock = t => pc[t] \in StoreSections
          /\ lcd_lock = t => pc[t] \in DisplaySections
          /\ ~(readings_lock = t /\ lcd_lock = t)
    /\ pc["main"] # "m_done" => ENABLED NextLocks

\* Both locks are held at once, by two threads, and a third waits for
\* readings_lock.
C9_Witness ==
    /\ readings_lock = "st" /\ lcd_lock = "kt"
    /\ pc["ct"] = "c_lock"

-----------------------------------------------------------------------------
(* Claims about what the publisher observes, under SpecPublish *)

\* C10: a measurement that returns both temperature and humidity replaces
\* both as one store update: no snapshot of the publisher shows a
\* temperature and humidity other than those left by whole measurements
\* (the new temperature with the old humidity).
C10_NoPartialUpdateSeen == ~c_torn

-----------------------------------------------------------------------------
(* Claims about the keypad's presence gate, under Spec *)

\* Where handle_keypress starts for the keys scanned.
Handlers == {"k1_ultra", "k2_dht", "k_other"}

\* The scanner detects a rising edge in this step: it leaves the scan of the
\* cell for a handler or for the debounce wait.
EdgeStep == pc["kt"] = "k_scan" /\ pc'["kt"] \in Handlers \cup {"k_wait"}

-----------------------------------------------------------------------------
(* Claims about the shutdown, under SpecHalt *)

\* C12: after main sets the stop signal the actuator is commanded off before
\* the hardware is released, and when GPIO.cleanup runs the motor output and
\* the store's motor_on are off, wherever the sampling loop is.
C12_SafeOffAtCleanup ==
    pc["main"] \in {"m_cleanup", "m_done"}
       => motor_pin = 0 /\ readings.motor_on = 0

-----------------------------------------------------------------------------
(* Claims about concurrent callers of AlertGate, under SpecCallers *)

\* Both callers have completed calls that ran concurrently, with the same
\* key and the same new state.
ConcurrentPairDone ==
    /\ \A c \in Callers : gcall[c].pc = "idle" /\ gcall[c].overlap
    /\ gcall["a"].key = gcall["b"].key /\ gcall["a"].state = gcall["b"].state

\* C13: when two threads call maybe_send concurrently for the same key with
\* the same new state, at most one notification is sent, and last_state has
\* the new state as after either order of the two calls.
C13_OneSendForConcurrentCalls ==
    ConcurrentPairDone =>
       /\ ~(gcall["a"].sent /\ gcall["b"].sent)
       /\ Get(last_state, gcall["a"].key, "none") = gcall["a"].state

-----------------------------------------------------------------------------
(* Claims about failed sends of AlertGate, under SpecGate *)

\* A step that is a call of maybe_send (the clock stands still in it), evt'
\* being the call and evt the call before it.
CallStep == now' = now

\* C14: a send that fails leaves last_sent[key] as it was and sets
\* last_state[key] to the new state; last_sent changes only in a call whose
\* send succeeded; and the next call for the key, with a different state,
\* attempts a send whatever time has passed since the failed attempt.
C14_FailedSendKeepsCooldown ==
    [][ CallStep =>
          /\ (evt'.attempted /\ ~evt'.delivered)
                => /\ last_sent' = last_sent
                   /\ Get(last_state', evt'.key, "none") = evt'.state
          /\ last_sent' # last_sent => evt'.delivered
          /\ (/\ evt.attempted /\ ~evt.delivered
              /\ evt'.key = evt.key /\ evt'.state # evt.state)
                => evt'.attempted ]_vars

\* A send has failed for a key that had a successful send before: last_sent
\* still has the time of that one, last_state has the new state.
C14_Witness ==
    /\ evt.attempted /\ ~evt.delivered
    /\ evt.key \in DOMAIN last_sent /\ last_sent[evt.key] < now
    /\ last_state[evt.key] = evt.state

-----------------------------------------------------------------------------
(* Claims about failed pushes, under SpecPush *)

\* C15: a push that fails, by a network error or by a response that is not a
\* success, returns False; and the push of the publisher's next tick,
\* PUBLISH_PERIOD or more after a push that was transmitted and failed, is
\* transmitted to the sink too, not dropped by the minimum-interval guard.
C15_FailedPushRetriedNextTick ==
    [][ CallStep =>
          /\ (pevt'.sent /\ pevt'.net # "ok") => ~pevt'.ret
          /\ (/\ pevt.sent /\ ~pevt.ret
              /\ now >= pevt.at + PUBLISH_PERIOD)
                => pevt'.sent ]_vars

-----------------------------------------------------------------------------
(* Claims about the first alert of a key, under SpecWater *)

\* C16: the first maybe_send for a key with no entry, whatever its state,
\* counts as changed and not recently notified, and sends; a successful send
\* records its time in last_sent; and with distances of 8 and 9 cm (cutoff 7)
\* the sampling loop signals water low, the first call sends the alert and no
\* later call, within 60 s or after, sends it again.
C16_FirstCallSends ==
    /\ evt.first => evt.differed /\ ~evt.tooSoon /\ evt.attempted
    /\ \A k \in DOMAIN sent_at : k \in DOMAIN last_sent /\ last_sent[k] = sent_at[k]
    /\ (pc["st"] = "s_dry_lock" /\ s_distance \in {8, 9})
          => /\ evt.key = "water_low" /\ evt.state
             /\ evt.attempted <=> evt.first

\* A reading of 9 cm less than cooldown_sec after the water-low alert was
\* delivered: the call repeats the state and sends nothing.
C16_Witness ==
    /\ pc["st"] = "s_dry_lock" /\ s_distance = 9
    /\ evt.repeat /\ ~evt.attempted
    /\ "water_low" \in DOMAIN sent_at /\ now - sent_at["water_low"] < cooldown_sec

-----------------------------------------------------------------------------
(* Claims about the master switch, under SpecWater *)

\* Where the sampling loop is in an iteration that found the switch off.
OffPath == {"s_off_pin", "s_off_lock", "s_off_set"}

\* The record but for motor_on.
BesidesMotor(r) == [r EXCEPT !.motor_on = 0]

\* C17: an iteration that finds the master switch off commands the actuator
\* off (pin and store motor_on = 0 when it ends) and does nothing else: it
\* goes back to the top of the loop through no sensor read, makes no call of
\* the gate, and leaves every other field of the record as it was.
C17_SwitchOffSkipsIteration ==
    [][ (pc["st"] \in OffPath /\ pc'["st"] # pc["st"]) =>
          /\ pc'["st"] \in OffPath \cup {"s_loop"}
          /\ BesidesMotor(readings') = BesidesMotor(readings)
          /\ UNCHANGED <<last_sent, last_state, run, evt>>
          /\ UNCHANGED <<s_active, s_distance, s_was_dry, s_dry, s_dht, last_dht_time>>
          /\ pc'["st"] = "s_loop" => motor_pin' = 0 /\ readings'.motor_on = 0 ]_vars

\* The switch is found off after an iteration that measured, alerted and
\* turned the motor on: the pin is off again, the store is about to follow.
C17_Witness ==
    /\ pc["st"] = "s_off_set"
    /\ motor_pin = 0 /\ readings.motor_on = 1
    /\ readings.distance_cm # None /\ readings.temp_c # None
    /\ evt.key = "soil_dry" /\ evt.state

-----------------------------------------------------------------------------
(* Claims about the keypad's edge detection, under SpecKeys *)

\* The scanner dispatches handle_keypress for the cell it scans in this step.
DispatchStep == pc["kt"] = "k_scan" /\ pc'["kt"] \in Handlers

\* C18: the scanner acts on rising edges only: one physical press of a key
\* is dispatched at most once; a dispatch happens only for a key that is
\* down, whose press was not dispatched before and whose cell was last
\* recorded as released; and a cell's record goes back to released only in a
\* step that reads the key released.
C18_OneDispatchPerPress ==
    [][ /\ \A c \in DOMAIN keys : keys'[c].hits <= 1
        /\ DispatchStep =>
             /\ keys[k_cell].down /\ keys[k_cell].hits = 0
             /\ ~keypad_last_state[k_cell]
        /\ \A c \in DOMAIN keys :
             (keypad_last_state[c] /\ ~keypad_last_state'[c]) => ~keys[c].down ]_vars

\* A press that was dispatched once and is still held: the scanner is in the
\* debounce wait of its cell.
C18_Witness ==
    /\ pc["kt"] = "k_wait" /\ k_active
    /\ keys[k_cell].down /\ keys[k_cell].hits = 1

-----------------------------------------------------------------------------
(* Claims about a key that is never released, under SpecStuck *)

\* The scanner sits in the debounce wait of the stuck key, which is down.
Blocked ==
    /\ pc["kt"] = "k_wait" /\ k_cell = StuckCell
    /\ keys[StuckCell].down

\* C19: a stuck key blocks only the keypad scanner: in its debounce wait the
\* scanner holds neither readings_lock nor lcd_lock, and under fair
\* scheduling, once the scanner waits for ever on the stuck key, the sampling
\* loop goes on taking readings_lock to update the record and the publisher
\* goes on completing its snapshot and reaching its push, for ever.
C19_StuckKeyBlocksScannerOnly ==
    /\ [](pc["kt"] = "k_wait" => (readings_lock # "kt" /\ lcd_lock # "kt"))
    /\ <>[]Blocked => ([]<>(readings_lock = "st") /\ []<>(pc["ct"] = "c_push"))

\* The scanner blocked on the stuck key while the sampling loop holds the
\* lock for an update and the publisher has its snapshot.
C19_Witness ==
    /\ Blocked
    /\ readings_lock = "st" /\ pc["ct"] = "c_push"

-----------------------------------------------------------------------------
(* Claims about a failed distance read in the sampling loop, under SpecEcho *)

\* Where the sampling loop is between its distance read and the end of the
\* iteration.
AfterRead ==
    {"s_water", "s_dry_lock", "s_dry_set", "s_cdm_lock", "s_cdm_set",
     "s_mot_pin", "s_mot_lock", "s_mot_set", "s_soil", "s_dht",
     "s_temp_lock", "s_temp_set", "s_hum_lock", "s_hum_set",
     "s_upd_lock", "s_upd_set"}

\* The iteration under way has a failed distance read: the read raised
\* (distance = -1), returned d <= 0, or timed out.
FailedRead ==
    /\ pc["st"] \in AfterRead
    /\ s_distance <= 0 \/ s_distance >= EchoTimeoutCm

\* What the gate holds for water_low.
WaterGate ==
    <<"water_low" \in DOMAIN last_state, Get(last_state, "water_low", FALSE),
      "water_low" \in DOMAIN last_sent, Get(last_sent, "water_low", 0)>>

\* The sampling loop takes a step.
SensorsMove == pc'["st"] # pc["st"]

\* C20: a failed distance read (exception, timeout or d <= 0) raises no alert
\* transition: in that iteration the step of the water alert makes no call
\* of the gate, no step calls maybe_send for water_low, and last_state and
\* last_sent of water_low stay as they are; the iteration goes on to the
\* moisture read, drives the motor from it, calls maybe_send for soil_dry
\* with it, and ends only after the update of the record.
C20_FailedReadRaisesNoAlert ==
    [][ (FailedRead /\ SensorsMove) =>
          /\ WaterGate' = WaterGate
          /\ evt'.key = "water_low" => evt' = evt
          /\ pc["st"] = "s_water" => (pc'["st"] = "s_dry_lock" /\ UNCHANGED gateVars)
          /\ pc["st"] = "s_mot_pin" => motor_pin' = MotorLevel(s_dry)
          /\ pc["st"] = "s_soil" => (evt'.key = "soil_dry" /\ evt'.state = s_was_dry)
          /\ pc'["st"] = "s_loop" => pc["st"] = "s_upd_set" ]_vars

-----------------------------------------------------------------------------
(* Claims about the moisture reads of one iteration, under SpecWater *)

\* The sampling loop signals the soil state to the gate in this step.
SoilStep == pc["st"] = "s_soil" /\ pc'["st"] = "s_dht"

\* C21: in every enabled sampling iteration the motor command and the
\* soil_dry state passed to the gate come from one moisture observation: when
\* the iteration calls maybe_send for soil_dry, the motor is commanded on,
\* at its pin and in the record, iff the state it passes is dry.
C21_MotorAndAlertAgree ==
    [][ SoilStep =>
          /\ evt'.key = "soil_dry"
          /\ evt'.state <=> motor_pin = 1
          /\ evt'.state <=> readings.motor_on = 1 ]_vars

-----------------------------------------------------------------------------
(* Claims about the two users of the ultrasonic sensor, under Spec *)

\* C22: the ultrasonic sensor is never driven by two threads at once: the
\* sampling loop and the handler of key 1 are never both between the trigger
\* pulse and the return of read_ultrasonic_distance_cm.
C22_OneMeasurementAtATime ==
    ~(pc["st"] = "s_echo" /\ pc["kt"] = "k1_echo")

=============================================================================
